---- MODULE Spec2Model ----
\* Model of pdft/inversion.py: class Inversion (partition-potential inversion).
\* Floating-point quantities are modelled by integers; psi4 matrices and numpy
\* arrays are sequences (of sequences) of integers.  The SCF solve of a
\* fragment (frag.scf) is an external collaborator: it leaves the fragment in
\* one of a finite catalogue of solved states.
EXTENDS Integers, Sequences, FiniteSets, TLC

\* ------------------------------------------------------------------ bounds
MaxFrag  == 2      \* at most this many fragments
MaxIter  == 1      \* maxiter is drawn from 0..MaxIter
NBF      == 2      \* basis functions (molecule.nbf)
NBlocks  == 2      \* grid blocks (molecule.Vpot.nblocks())
NPoints  == 2      \* grid points per block

Basis      == 1..NBF
Blocks     == 1..NBlocks
Points     == 1..NPoints
Seeds      == {0, 1}                        \* catalogue of SCF solutions
Methods    == {"dd", "zpm", "zc", "wy_r"}
Guesses    == {"None", "hartree", "xc", "hxc"}
StepSizes  == {1, 2}                        \* beta
Tolerances == {0, 100}                      \* atol
Gains      == {1, 2}                        \* outcome of the response kernels
Occupations == {<<1, 1>>, <<1, 0>>}         \* (nalpha, nbeta) of the reference
Variants   == {"ok", "empty", "bigger"}     \* shape of a fragment's grid data

None == <<>>

\* ------------------------------------------------------------ arithmetic
Abs(x) == IF x < 0 THEN -x ELSE x

RECURSIVE SumSeq(_)
SumSeq(s) == IF Len(s) = 0 THEN 0 ELSE s[1] + SumSeq(Tail(s))

ZeroMat == [i \in Basis |-> [j \in Basis |-> 0]]

\* axpy that drops the scale factor
axpy_unscaled(m, a, x) == [i \in Basis |-> [j \in Basis |-> m[i][j] + x[i][j]]]

\* psi4.core.Matrix.axpy: self <- self + a * x
axpy(m, a, x) == [i \in Basis |-> [j \in Basis |-> m[i][j] + a * x[i][j]]]

\* ------------------------------------------- external collaborators' data
\* Solved state number k of an entity with pts points per block.
SolDa(k) == [i \in Basis |-> [j \in Basis |-> IF i = j THEN (i + k) % 2 ELSE 0]]
SolDb(k) == [i \in Basis |-> [j \in Basis |-> IF i = j THEN k ELSE 1 - k]]
SolGridA(k, pts) == [b \in Blocks |-> [p \in 1..pts |-> (b + p + k) % 2]]
SolGridB(k, pts) == [b \in Blocks |-> [p \in 1..pts |-> IF p = 1 THEN k + b ELSE 0]]

Solution(k, variant) ==
    LET pts == IF variant = "bigger" THEN NPoints + 1 ELSE NPoints
    IN [energy  |-> -(3 + k),
        Enuc    |-> 1 + k,
        Da      |-> SolDa(k),
        Db      |-> SolDb(k),
        da      |-> IF variant = "empty" THEN <<>> ELSE SolGridA(k, pts),
        db      |-> IF variant = "empty" THEN <<>> ELSE SolGridB(k, pts),
        npoints |-> NBlocks * pts]

\* A fragment: a solved state, the potential it was last solved under and
\* the number of times its scf has been called by the engine.
Fragment(k, variant) ==
    [sol |-> Solution(k, variant), vp_mn |-> <<ZeroMat, ZeroMat>>, nscf |-> 0]

\* The reference molecule.
Molecule(k, variant, occ) ==
    [sol     |-> Solution(k, variant),
     w       |-> [b \in Blocks |-> [p \in Points |-> b]],
     nalpha  |-> occ[1],
     nbeta   |-> occ[2],
     nbf     |-> NBF,
     nblocks |-> NBlocks]

\* molecule.mints.ao_eri(), indices (i, m, l, j)
ao_eri(i, m, l, j) == IF i = j /\ m = l THEN 2 ELSE 0

\* ------------------------------------------------- construction helpers
\* Inversion.assert_grid_elements: the failure raised, or the block count.
assert_grid_elements(fs, mol) ==
    IF Len(mol.sol.da) = 0
    THEN [err |-> "ConfigurationError", ret |-> None]
    ELSE IF Len(fs[1].sol.da) = 0
    THEN [err |-> "ConfigurationError", ret |-> None]
    ELSE IF mol.sol.npoints # fs[1].sol.npoints
    THEN [err |-> "GridMismatchError", ret |-> None]
    ELSE [err |-> "", ret |-> <<mol.nblocks>>]

\* Inversion.get_frag_energies
get_frag_energies(fs) == <<SumSeq([f \in 1..Len(fs) |-> fs[f].sol.energy])>>

\* get_frag_densities_nm that adds frag.Da into both sums
get_frag_densities_nm_same_channel(fs) ==
    <<[i \in Basis |-> [j \in Basis |->
          SumSeq([f \in 1..Len(fs) |-> fs[f].sol.Da[i][j]])]],
      [i \in Basis |-> [j \in Basis |->
          SumSeq([f \in 1..Len(fs) |-> fs[f].sol.Da[i][j]])]]>>

\* Inversion.get_frag_densities_nm: (sum_a, sum_b)
get_frag_densities_nm(fs) ==
    <<[i \in Basis |-> [j \in Basis |->
          SumSeq([f \in 1..Len(fs) |-> fs[f].sol.Da[i][j]])]],
      [i \in Basis |-> [j \in Basis |->
          SumSeq([f \in 1..Len(fs) |-> fs[f].sol.Db[i][j]])]]>>

\* numpy: block_sum += arr fails unless arr has the shape of block_sum or one
\* element; indexing a list past its end fails.
BlockFault(blocksum, grid, block) ==
    IF Len(grid) < block THEN "IndexError"
    ELSE IF Len(grid[block]) \notin {Len(blocksum), 1} THEN "BroadcastError"
    ELSE ""

\* The additions of get_frag_densities_r, in execution order, that fail.
GridFaults(fs, mol, nb) ==
    {bf \in (1..nb) \X (1..Len(fs)) :
        \/ BlockFault(mol.sol.da[bf[1]], fs[bf[2]].sol.da, bf[1]) # ""
        \/ BlockFault(mol.sol.db[bf[1]], fs[bf[2]].sol.db, bf[1]) # ""}

Before(x, y) == x[1] < y[1] \/ (x[1] = y[1] /\ x[2] <= y[2])

FirstGridFault(fs, mol, nb) ==
    LET F  == GridFaults(fs, mol, nb)
        bf == CHOOSE x \in F : \A y \in F : Before(x, y)
        fa == BlockFault(mol.sol.da[bf[1]], fs[bf[2]].sol.da, bf[1])
    IN IF F = {} THEN ""
       ELSE IF fa # "" THEN fa
       ELSE BlockFault(mol.sol.db[bf[1]], fs[bf[2]].sol.db, bf[1])

Bcast(arr, p) == IF Len(arr) = 1 THEN arr[1] ELSE arr[p]

\* Inversion.get_frag_densities_r: (sum_a, sum_b), when no addition fails
get_frag_densities_r(fs, mol, nb) ==
    <<[b \in 1..nb |-> [p \in 1..Len(mol.sol.da[b]) |->
          SumSeq([f \in 1..Len(fs) |-> Bcast(fs[f].sol.da[b], p)])]],
      [b \in 1..nb |-> [p \in 1..Len(mol.sol.db[b]) |->
          SumSeq([f \in 1..Len(fs) |-> Bcast(fs[f].sol.db[b], p)])]]>>

\* Inversion.get_ep
get_ep(fs, mol) ==
    <<(mol.sol.energy - mol.sol.Enuc)
        - SumSeq([f \in 1..Len(fs) |-> fs[f].sol.energy - fs[f].sol.Enuc])>>

\* get_delta_density("grid") that takes the absolute value point by point
delta_grid_pointwise(da_r, db_r, mol, nb) ==
    LET dd_a == [b \in 1..nb |-> [p \in 1..Len(da_r[b]) |->
                    da_r[b][p] - mol.sol.da[b][p]]]
        dd_b == [b \in 1..nb |-> [p \in 1..Len(db_r[b]) |->
                    db_r[b][p] - mol.sol.db[b][p]]]
        int(d, b) == SumSeq([p \in 1..Len(d[b]) |-> Abs(d[b][p]) * mol.w[b][p]])
    IN <<dd_a, dd_b,
         SumSeq([b \in 1..nb |-> int(dd_a, b) + int(dd_b, b)])>>

\* Inversion.get_delta_density(option="grid"): (dd_a, dd_b, l1error)
delta_grid(da_r, db_r, mol, nb) ==
    LET dd_a == [b \in 1..nb |-> [p \in 1..Len(da_r[b]) |->
                    da_r[b][p] - mol.sol.da[b][p]]]
        dd_b == [b \in 1..nb |-> [p \in 1..Len(db_r[b]) |->
                    db_r[b][p] - mol.sol.db[b][p]]]
        int(d, b) == SumSeq([p \in 1..Len(d[b]) |-> d[b][p] * mol.w[b][p]])
    IN <<dd_a, dd_b,
         SumSeq([b \in 1..nb |-> Abs(int(dd_a, b)) + Abs(int(dd_b, b))])>>

\* Inversion.get_delta_density(option="matrix"): (dd_a, dd_b)
delta_matrix(da_nm, db_nm, mol) ==
    <<[i \in Basis |-> [j \in Basis |-> mol.sol.Da[i][j] - da_nm[i][j]]],
      [i \in Basis |-> [j \in Basis |-> mol.sol.Db[i][j] - db_nm[i][j]]]>>

\* ------------------------------------------------------ update strategies
\* Inversion.vp_dd
vp_dd(dd_a, dd_b) == <<dd_a, dd_b>>

\* Inversion.vp_zpm: -0.5 * contract('imlj, ml->ij', eri, dd)
zpm_channel(dd) ==
    [i \in Basis |-> [j \in Basis |->
        -(SumSeq([m \in Basis |->
             SumSeq([l \in Basis |-> ao_eri(i, m, l, j) * dd[m][l]])]) \div 2)]]
vp_zpm(dd_a, dd_b) == <<zpm_channel(dd_a), zpm_channel(dd_b)>>

\* Inversion.vp_zc when x is bound: pinv(x) applied to dd = da_mn + db_mn and
\* symmetrized; the pseudo-inverse is a gain g.  Both channels get dvp.
vp_zc(da_mn, db_mn, g) ==
    LET dd  == [i \in Basis |-> [j \in Basis |-> da_mn[i][j] + db_mn[i][j]]]
        dvp == [i \in Basis |-> [j \in Basis |->
                   (g * dd[i][j] + g * dd[j][i]) \div 2]]
    IN <<dvp, dvp>>

\* x is bound in vp_zc only by the equal-occupation branch of a fragment.
zc_x_bound(fs, mol) == Len(fs) > 0 /\ mol.nalpha = mol.nbeta

\* Inversion.vp_wy_r: dd = dd_a + dd_b concatenates the two lists of blocks,
\* so dd[block] is the alpha block; the reciprocal kernel is a gain g and the
\* basis functions are 1 at every point.  Both channels get dvp.
vp_wy_r(dd_a, dd_b, mol, g) ==
    LET dd  == dd_a \o dd_b
        val == SumSeq([b \in 1..mol.nblocks |->
                   SumSeq([p \in 1..Len(dd[b]) |->
                       g * dd[b][p] * mol.w[b][p] * mol.w[b][p]])])
        dvp == [i \in Basis |-> [j \in Basis |-> val]]
    IN <<dvp, dvp>>

VARIABLES
    frags, molecule,                      \* self.frags, self.molecule
    nblocks,                              \* self.nblocks
    frag_energy, frag_da_nm, frag_db_nm,  \* aggregates
    frag_da_r, frag_db_r,
    vp, ep,                               \* self.vp, self.ep
    pc, err,                              \* control position, failure raised
    args,                                 \* arguments of vp_handler
    loc,                                  \* locals of vp_handler
    nupdates                              \* number of updates of self.vp

vars == <<frags, molecule, nblocks, frag_energy, frag_da_nm, frag_db_nm,
          frag_da_r, frag_db_r, vp, ep, pc, err, args, loc, nupdates>>

engine == <<nblocks, frag_energy, frag_da_nm, frag_db_nm, frag_da_r,
            frag_db_r, vp, ep>>

NoArgs == [method |-> "", beta |-> 0, maxiter |-> 0, atol |-> 0, guess |-> ""]
NoLoc  == [step |-> 0, fi |-> 0, vp_a |-> None, vp_b |-> None,
           l1_list |-> <<>>, ep_list |-> <<>>,   \* histories
           dd_a |-> None, dd_b |-> None, error |-> 0,
           dd_a_mn |-> None, dd_b_mn |-> None,
           dvp_a |-> None, dvp_b |-> None, dvp_list |-> <<>>]

Init ==
    /\ \E n \in 1..MaxFrag :
         frags \in [1..n -> {Fragment(k, v) : k \in Seeds, v \in Variants}]
    /\ molecule \in {Molecule(k, v, occ) : k \in Seeds, v \in {"ok", "empty"},
                                           occ \in Occupations}
    /\ nblocks = None
    /\ frag_energy = None /\ frag_da_nm = None /\ frag_db_nm = None
    /\ frag_da_r = None /\ frag_db_r = None
    /\ vp = None /\ ep = None
    /\ pc = "new" /\ err = ""
    /\ args = NoArgs /\ loc = NoLoc
    /\ nupdates = 0

\* Inversion.__init__
Construct ==
    /\ pc = "new"
    /\ LET chk == assert_grid_elements(frags, molecule)
           nm  == get_frag_densities_nm(frags)
       IN IF chk.err # ""
          THEN /\ pc' = "ctor_failed" /\ err' = chk.err
               /\ UNCHANGED <<nblocks, frag_energy, frag_da_nm, frag_db_nm,
                              frag_da_r, frag_db_r>>
          ELSE /\ nblocks' = chk.ret
               /\ frag_energy' = get_frag_energies(frags)
               /\ frag_da_nm' = nm[1] /\ frag_db_nm' = nm[2]
               /\ LET fault == FirstGridFault(frags, molecule, chk.ret[1])
                      r     == get_frag_densities_r(frags, molecule, chk.ret[1])
                  IN IF fault # ""
                     THEN /\ pc' = "ctor_failed" /\ err' = fault
                          /\ UNCHANGED <<frag_da_r, frag_db_r>>
                     ELSE /\ pc' = "constructed" /\ err' = ""
                          /\ frag_da_r' = r[1] /\ frag_db_r' = r[2]
    /\ UNCHANGED <<frags, molecule, vp, ep, args, loc, nupdates>>

\* vp_handler in which guess "xc" falls through into the loop
VpHandler_xc_falls_through ==
    /\ pc = "constructed"
    /\ \E method \in Methods, beta \in StepSizes, maxiter \in 0..MaxIter,
          atol \in Tolerances, guess \in Guesses :
         /\ args' = [method |-> method, beta |-> beta, maxiter |-> maxiter,
                     atol |-> atol, guess |-> guess]
         /\ IF guess \in {"hartree", "hxc"}
            THEN pc' = "returned" /\ loc' = NoLoc
            ELSE /\ pc' = "resolve"
                 /\ loc' = [NoLoc EXCEPT !.vp_a = ZeroMat, !.vp_b = ZeroMat,
                                         !.step = 0, !.fi = 1]
    /\ UNCHANGED <<frags, molecule, engine, err, nupdates>>

\* vp_handler, lines 175-194: entry, the guess stubs, the empty histories
VpHandler ==
    /\ pc = "constructed"
    /\ \E method \in Methods, beta \in StepSizes, maxiter \in 0..MaxIter,
          atol \in Tolerances, guess \in Guesses :
         /\ args' = [method |-> method, beta |-> beta, maxiter |-> maxiter,
                     atol |-> atol, guess |-> guess]
         /\ IF guess \in {"hartree", "xc", "hxc"}
            THEN pc' = "returned" /\ loc' = NoLoc
            ELSE /\ pc' = "resolve"
                 /\ loc' = [NoLoc EXCEPT !.vp_a = ZeroMat, !.vp_b = ZeroMat,
                                         !.step = 0, !.fi = 1]
    /\ UNCHANGED <<frags, molecule, engine, err, nupdates>>

\* vp_handler, lines 197-198: frag.scf of the next fragment
Resolve ==
    /\ pc = "resolve"
    /\ \E k \in Seeds :
         frags' = [frags EXCEPT ![loc.fi] =
                      [sol   |-> Solution(k, "ok"),
                       vp_mn |-> <<loc.vp_a, loc.vp_b>>,
                       nscf  |-> @.nscf + 1]]
    /\ IF loc.fi < Len(frags)
       THEN pc' = "resolve" /\ loc' = [loc EXCEPT !.fi = @ + 1]
       ELSE pc' = "measure" /\ loc' = loc
    /\ UNCHANGED <<molecule, engine, err, args, nupdates>>

\* vp_handler, lines 201-208: aggregate, partition energy, residuals, histories
Measure ==
    /\ pc = "measure"
    /\ LET nm    == get_frag_densities_nm(frags)
           fault == FirstGridFault(frags, molecule, nblocks[1])
           r     == get_frag_densities_r(frags, molecule, nblocks[1])
           e     == get_ep(frags, molecule)
           g     == delta_grid(r[1], r[2], molecule, nblocks[1])
           m     == delta_matrix(nm[1], nm[2], molecule)
       IN /\ frag_energy' = get_frag_energies(frags)
          /\ IF fault # ""
             THEN /\ pc' = "failed" /\ err' = fault /\ loc' = NoLoc
                  /\ UNCHANGED <<frag_da_r, frag_db_r, frag_da_nm, frag_db_nm, ep>>
             ELSE /\ frag_da_r' = r[1] /\ frag_db_r' = r[2]
                  /\ frag_da_nm' = nm[1] /\ frag_db_nm' = nm[2]
                  /\ ep' = e
                  /\ loc' = [loc EXCEPT !.dd_a = g[1], !.dd_b = g[2],
                                        !.error = g[3],
                                        !.dd_a_mn = m[1], !.dd_b_mn = m[2],
                                        !.l1_list = Append(@, g[3]),
                                        !.ep_list = Append(@, e[1])]
                  /\ pc' = "update" /\ err' = err
    /\ UNCHANGED <<frags, molecule, nblocks, vp, args, nupdates>>

\* The increments a strategy can return, lines 213-220
Increments ==
    CASE args.method = "zpm"  -> {vp_zpm(loc.dd_a_mn, loc.dd_b_mn)}
      [] args.method = "dd"   -> {vp_dd(loc.dd_a_mn, loc.dd_b_mn)}
      [] args.method = "zc"   -> {vp_zc(loc.dd_a_mn, loc.dd_b_mn, g) : g \in Gains}
      [] args.method = "wy_r" -> {vp_wy_r(loc.dd_a, loc.dd_b, molecule, g) : g \in Gains}

\* Update in which the bound is tested before the potential is accumulated
Update_after_bound_test ==
    /\ pc = "update"
    /\ IF args.method = "zc" /\ ~zc_x_bound(frags, molecule)
       THEN /\ pc' = "failed" /\ err' = "UnboundLocalError" /\ loc' = NoLoc
            /\ UNCHANGED <<vp, nupdates>>
       ELSE \E dvp \in Increments :
            LET last  == loc.step = args.maxiter
                new_a == IF last THEN loc.vp_a ELSE axpy(loc.vp_a, args.beta, dvp[1])
                new_b == IF last THEN loc.vp_b ELSE axpy(loc.vp_b, args.beta, dvp[2])
            IN /\ loc' = [loc EXCEPT !.dvp_a = dvp[1], !.dvp_b = dvp[2],
                                     !.vp_a = new_a, !.vp_b = new_b,
                                     !.dvp_list = Append(@, dvp)]
               /\ vp' = <<new_a, new_b>>
               /\ nupdates' = nupdates + 1
               /\ pc' = "bound" /\ err' = err
    /\ UNCHANGED <<frags, molecule, nblocks, frag_energy, frag_da_nm,
                   frag_db_nm, frag_da_r, frag_db_r, ep, args>>

\* vp_handler, lines 213-227: dispatch and accumulate
Update ==
    /\ pc = "update"
    /\ IF args.method = "zc" /\ ~zc_x_bound(frags, molecule)
       THEN /\ pc' = "failed" /\ err' = "UnboundLocalError" /\ loc' = NoLoc
            /\ UNCHANGED <<vp, nupdates>>
       ELSE \E dvp \in Increments :
            LET new_a == axpy(loc.vp_a, args.beta, dvp[1])
                new_b == axpy(loc.vp_b, args.beta, dvp[2])
            IN /\ loc' = [loc EXCEPT !.dvp_a = dvp[1], !.dvp_b = dvp[2],
                                     !.vp_a = new_a, !.vp_b = new_b,
                                     !.dvp_list = Append(@, dvp)]
               /\ vp' = <<new_a, new_b>>
               /\ nupdates' = nupdates + 1
               /\ pc' = "bound" /\ err' = err
    /\ UNCHANGED <<frags, molecule, nblocks, frag_energy, frag_da_nm,
                   frag_db_nm, frag_da_r, frag_db_r, ep, args>>

\* the bound test preceded by a convergence test of the residual against atol
Bound_with_convergence_test ==
    /\ pc = "bound"
    /\ IF loc.error < args.atol
       THEN pc' = "returned" /\ err' = err /\ loc' = NoLoc
       ELSE IF loc.step = args.maxiter
       THEN pc' = "raised" /\ err' = "MaxIterationsExceeded" /\ loc' = NoLoc
       ELSE /\ pc' = "resolve" /\ err' = err
            /\ loc' = [loc EXCEPT !.step = @ + 1, !.fi = 1]
    /\ UNCHANGED <<frags, molecule, engine, args, nupdates>>

\* vp_handler, lines 195 and 278-279: the bound test and the loop's next step
Bound ==
    /\ pc = "bound"
    /\ IF loc.step = args.maxiter
       THEN pc' = "raised" /\ err' = "MaxIterationsExceeded" /\ loc' = NoLoc
       ELSE /\ pc' = "resolve" /\ err' = err
            /\ loc' = [loc EXCEPT !.step = @ + 1, !.fi = 1]
    /\ UNCHANGED <<frags, molecule, engine, args, nupdates>>

Next == Construct \/ VpHandler \/ Resolve \/ Measure \/ Update \/ Bound

Spec == Init /\ [][Next]_vars
\* ================================================================ claims
Stubs  == {"hartree", "xc", "hxc"}
Ended  == {"raised", "failed", "returned"}
InLoop == {"resolve", "measure", "update", "bound"}
NFrag  == Len(frags)

RECURSIVE SetSum(_, _)
SetSum(fn, S) ==
    IF S = {} THEN 0
    ELSE LET x == CHOOSE y \in S : TRUE IN fn[x] + SetSum(fn, S \ {x})

EqualOccupation == molecule.nalpha = molecule.nbeta

C2_BodyRunsMaxiterTimes ==
    pc = "raised"
        => /\ nupdates = args.maxiter
           /\ \A f \in 1..NFrag : frags[f].nscf = args.maxiter

\* ---------------------------------------------------------------- C3
\* C3: with every ingredient present, a fragment at any position whose grid
\* point count differs from the reference's makes construction fail with the
\* grid-mismatch error before any aggregation runs.
C3_AnyFragmentMismatchRejected ==
    (/\ pc # "new"
     /\ Len(molecule.sol.da) > 0
     /\ \A f \in 1..NFrag : Len(frags[f].sol.da) > 0
     /\ \E f \in 1..NFrag : frags[f].sol.npoints # molecule.sol.npoints)
        => /\ pc = "ctor_failed" /\ err = "GridMismatchError"
           /\ frag_energy = None /\ frag_da_nm = None /\ frag_da_r = None

\* ---------------------------------------------------------------- C4
\* C4: construction fails with the configuration error whenever the density
\* ingredient of the reference or of any fragment is empty.
C4_AnyEmptyIngredientRejected ==
    (/\ pc # "new"
     /\ \/ Len(molecule.sol.da) = 0
        \/ \E f \in 1..NFrag : Len(frags[f].sol.da) = 0)
        => (pc = "ctor_failed" /\ err = "ConfigurationError")

\* ---------------------------------------------------------------- C5
Aggregated ==
    \/ pc \in {"constructed", "returned", "update", "bound", "raised"}
    \/ pc = "failed" /\ err = "UnboundLocalError"

\* C5: after construction and after the aggregation step of every iteration
\* the aggregate energy and the aggregate densities (matrix form per channel,
\* grid form per block and channel) are the elementwise sums over the current
\* fragments.
C5_AggregatesAreSums ==
    Aggregated
        => /\ frag_energy[1] = SetSum([f \in 1..NFrag |-> frags[f].sol.energy], 1..NFrag)
           /\ \A i \in Basis, j \in Basis :
                /\ frag_da_nm[i][j] =
                     SetSum([f \in 1..NFrag |-> frags[f].sol.Da[i][j]], 1..NFrag)
                /\ frag_db_nm[i][j] =
                     SetSum([f \in 1..NFrag |-> frags[f].sol.Db[i][j]], 1..NFrag)
           /\ \A b \in Blocks, p \in Points :
                /\ frag_da_r[b][p] =
                     SetSum([f \in 1..NFrag |-> frags[f].sol.da[b][p]], 1..NFrag)
                /\ frag_db_r[b][p] =
                     SetSum([f \in 1..NFrag |-> frags[f].sol.db[b][p]], 1..NFrag)

\* second iteration, two fragments re-solved to different states
C5_Witness ==
    /\ pc = "update" /\ loc.step = 1 /\ NFrag = 2
    /\ frags[1].sol # frags[2].sol
    /\ frag_da_nm # frag_db_nm

\* ---------------------------------------------------------------- C6
BlockIntegral(d, b) == SetSum([p \in Points |-> d[b][p] * molecule.w[b][p]], Points)

\* C6: the grid residual is aggregate - reference per block and channel, the
\* matrix residual is reference - aggregate per channel, and the scalar error
\* is the sum over blocks and channels of the absolute value of the weighted
\* sum of the block's grid residual.
C6_ResidualSigns ==
    pc \in {"update", "bound"}
        => /\ \A b \in Blocks, p \in Points :
                /\ loc.dd_a[b][p] = frag_da_r[b][p] - molecule.sol.da[b][p]
                /\ loc.dd_b[b][p] = frag_db_r[b][p] - molecule.sol.db[b][p]
           /\ \A i \in Basis, j \in Basis :
                /\ loc.dd_a_mn[i][j] = molecule.sol.Da[i][j] - frag_da_nm[i][j]
                /\ loc.dd_b_mn[i][j] = molecule.sol.Db[i][j] - frag_db_nm[i][j]
           /\ loc.error =
                SetSum([b \in Blocks |-> Abs(BlockIntegral(loc.dd_a, b))
                                          + Abs(BlockIntegral(loc.dd_b, b))], Blocks)

\* a block whose point differences cancel, next to a block that contributes,
\* with a non-zero matrix residual
C6_Witness ==
    /\ pc = "update"
    /\ \E b \in Blocks :
         /\ \E p \in Points : loc.dd_a[b][p] # 0
         /\ BlockIntegral(loc.dd_a, b) = 0
    /\ loc.error > 0
    /\ loc.dd_a_mn # ZeroMat

\* ---------------------------------------------------------------- C7
\* C7: a call with guess hartree, xc or hxc returns at once: no failure, no
\* fragment re-solved, no update, engine fields and fragments unchanged.
C7_GuessReturnsAtOnce ==
    [][ args'.guess \in Stubs
        => /\ pc' = "returned" /\ err' = ""
           /\ UNCHANGED <<frags, molecule, engine, nupdates>>
      ]_vars

C7_Witness ==
    /\ pc = "returned" /\ args.guess = "xc" /\ args.maxiter = MaxIter
    /\ vp = None /\ ep = None /\ nupdates = 0
    /\ \A f \in 1..NFrag : frags[f].nscf = 0

\* ---------------------------------------------------------------- C8
\* C8: method zc on a reference with unequal occupation fails with the
\* dedicated unimplemented-variant error, in the first iteration and before
\* any update; with equal occupation that error is never raised.
C8_DedicatedError ==
    /\ (pc \in Ended /\ args.guess = "None" /\ args.method = "zc"
            /\ ~EqualOccupation)
          => (pc = "failed" /\ err = "UnimplementedVariantError" /\ nupdates = 0)
    /\ EqualOccupation => err # "UnimplementedVariantError"

\* ---------------------------------------------------------------- C9
MatSum(ms, c) ==
    [i \in Basis |-> [j \in Basis |->
        SetSum([k \in 1..Len(ms) |-> ms[k][c][i][j]], 1..Len(ms))]]
Scaled(a, m) == [i \in Basis |-> [j \in Basis |-> a * m[i][j]]]

C10_PartialResultAtFailure ==
    [][ pc' = "raised"
        => /\ vp' = vp /\ frags' = frags /\ ep' = ep
           /\ UNCHANGED <<frag_energy, frag_da_nm, frag_db_nm, frag_da_r, frag_db_r>>
           /\ \A f \in 1..NFrag :
                /\ vp[1] = [i \in Basis |-> [j \in Basis |->
                              frags[f].vp_mn[1][i][j] + args.beta * loc.dvp_a[i][j]]]
                /\ vp[2] = [i \in Basis |-> [j \in Basis |->
                              frags[f].vp_mn[2][i][j] + args.beta * loc.dvp_b[i][j]]]
           /\ ep[1] = (molecule.sol.energy - molecule.sol.Enuc)
                        - SetSum([f \in 1..NFrag |->
                                    frags[f].sol.energy - frags[f].sol.Enuc], 1..NFrag)
           /\ frag_energy[1] = SetSum([f \in 1..NFrag |-> frags[f].sol.energy], 1..NFrag)
           /\ Len(loc.l1_list) = loc.step + 1
           /\ Len(loc.ep_list) = loc.step + 1
           /\ loc.ep_list[loc.step + 1] = ep[1]
           /\ loc' = NoLoc
      ]_vars

\* raised with a stored potential different from the one the fragments saw
C10_Witness ==
    /\ pc = "raised" /\ args.maxiter = MaxIter
    /\ \E f \in 1..NFrag : vp[1] # frags[f].vp_mn[1]
    /\ loc = NoLoc
====
